---- MODULE Spec2Model ----
(***************************************************************************)
(* Contract Portal: the storage gateway (GET / POST / DELETE on            *)
(* /api/contracts, in its three source variants), the browser application *)
(* (src/src/App.tsx), the status-based upload widget of src/index.tsx, the *)
(* mock store of src/src/api.ts, and formatBytes.                          *)
(*                                                                         *)
(* The gateway handlers are async functions: every `await` of a blob-store *)
(* or database call is one atomic step on the store, and the steps of the  *)
(* requests of different clients interleave.                               *)
(***************************************************************************)
EXTENDS Integers, Sequences, FiniteSets, TLC

VARIABLES
  variant,      \* which source file serves /api/contracts
  blobs,        \* the blob store: set of [url, name, size]
  db,           \* the contracts table: set of [id, name, size, url, uploaded_at]
  nextUrl,      \* next url the blob store hands out
  nextId,       \* next id the database assigns
  issued,       \* number of requests issued so far
  req,          \* per client: the request being handled and the handler's locals
  resp,         \* per client: the response returned (status 0: none yet)
  calls,        \* per client: the store calls the handler has made, with outcome
  \* --- the browser application (src/src/App.tsx)
  file,           \* FileUploader: the selected file, or None
  isUploading,    \* FileUploader: an upload is running
  pending,        \* the handleUpload calls waiting at their await, each with the
                  \* `file` of the render that started it
  uploadedFiles,  \* App: the canonical collection
  notifications,  \* App: the notifications shown, in emission order
  now,            \* Date.now()
  nextUuid,       \* what crypto.randomUUID() returns next
  fileToDelete,   \* App: the record waiting for a delete confirmation, or None
  searchTerm,     \* App: the search text
  sortOption,     \* App: the sort mode
  visibleFiles,   \* App: the memoized filteredAndSortedFiles
  timers,         \* per notification shown: when its running setTimeout started
  \* --- the status-based upload widget (src/index.tsx)
  status,         \* FileUploader: 'idle' | 'uploading' | 'success' | 'error'
  errorMessage,   \* FileUploader: the message shown when status is 'error'
  resetTimers,    \* number of setTimeout(() => setStatus('idle'), 3000) not yet fired
  \* --- the mock store (src/src/api.ts)
  files,          \* the module-level collection
  apiCalls,       \* the calls waiting at their artificial delay
  apiResults,     \* the calls that settled, with their outcome
  \* --- formatBytes
  bytes,          \* the byte count, as base-1024 digits, least significant first
  formatted,      \* what formatBytes returned for it, or None
  \* --- which part of the repository the run exercises
  running

gwVars == <<variant, blobs, db, nextUrl, nextId, issued, req, resp, calls>>

\* the FileUploader component of App.tsx
uploaderVars == <<file, isUploading, pending>>

\* the state of the App component and of what it renders
appState == <<uploadedFiles, notifications, fileToDelete, searchTerm, sortOption,
              visibleFiles, timers>>

appVars == <<uploaderVars, appState, now, nextUuid>>

indexVars == <<status, errorMessage, resetTimers>>

apiVars == <<files, apiCalls, apiResults>>

formatVars == <<bytes, formatted>>

\* everything but the gateway
uiVars == <<appVars, indexVars, apiVars, formatVars, running>>

vars == <<gwVars, uiVars>>

\* ----------------------------------------------------------------- bounds
MaxReq == 2
MaxUploads == 1
MaxNotifs == 2
MaxTicks == 3
MaxCalls == 2
MaxDigits == 6

\* ------------------------------------------------------------ basic values
None == <<>>
Some(x) == <<x>>
IsSome(o) == Len(o) = 1
Val(o) == o[1]

Clients == {"c1", "c2"}
Variants == {"part_000", "index", "route"}

\* ------------------------------------------------------ pure helper functions
\* error instanceof Error ? error.message : 'Unknown error'
ErrorMessage(error) ==
  IF error.isError THEN error.message ELSE "Unknown error"

ThrownError(msg) == [isError |-> TRUE, message |-> msg]

NoError == [isError |-> FALSE, message |-> ""]

NoResponse == [status |-> 0, error |-> "", details |-> None, body |-> <<>>]

\* jsonResponse(data, status) for the error bodies { error, details? }
jsonError(error, details, httpStatus) ==
  [status |-> httpStatus, error |-> error, details |-> details, body |-> <<>>]

\* jsonResponse(data, status) for a data body
jsonResponse(data, httpStatus) ==
  [status |-> httpStatus, error |-> "", details |-> None, body |-> data]

IsSeparator(c) == c \in {"/", "\\"}

\* String.prototype.split(/[/\\]/): the pieces between separators; never empty
RECURSIVE Split(_)
Split(s) ==
  IF \A i \in 1..Len(s) : ~IsSeparator(s[i])
    THEN <<s>>
    ELSE LET k == CHOOSE i \in 1..Len(s) :
                     IsSeparator(s[i]) /\ \A j \in 1..(i - 1) : ~IsSeparator(s[j])
         IN  <<SubSeq(s, 1, k - 1)>> \o Split(SubSeq(s, k + 1, Len(s)))

FallbackName == <<"unknown-file.zip">>

\* filenameParam.split(/[/\\]/).pop() ?? 'unknown-file.zip'
\* (pop() is undefined only for an empty array; ?? replaces only null/undefined)
SanitizeNullish(filenameParam) ==
  LET parts == Split(filenameParam)
  IN  IF Len(parts) = 0 THEN FallbackName ELSE parts[Len(parts)]

\* the name the variant passes to put() and stores in the row
sanitizedFilename(v, filenameParam) ==
  IF v = "part_000" THEN SanitizeNullish(filenameParam) ELSE filenameParam

\* parseInt(request.headers.get('content-length') || '0', 10)
\* (a header, when present, is the decimal text of a number: Val(h))
parseIntHeader(h) ==
  IF ~IsSome(h) THEN 0 ELSE Val(h)

\* Number(request.headers.get('content-length')) || 0
NumberHeaderOrZero(h) ==
  IF ~IsSome(h) THEN 0 ELSE IF Val(h) = 0 THEN 0 ELSE Val(h)

\* the size the variant puts in the row
SizeToInsert(v, headSize, contentLength) ==
  CASE v = "part_000" -> headSize
    [] v = "index"    -> parseIntHeader(contentLength)
    [] v = "route"    -> NumberHeaderOrZero(contentLength)

\* the body of the 400 of POST
PostBadRequest(v) ==
  IF v = "route"
    THEN jsonError("Nome do arquivo e corpo da requisicao sao obrigatorios", None, 400)
    ELSE jsonError("Nome do arquivo e corpo da requisicao sao obrigatorios",
                   Some("Missing filename or request body."), 400)

UsesHead(v) == v = "part_000"

\* .order('uploaded_at', { ascending: false })
RECURSIVE OrderByUploadedAtDesc(_)
OrderByUploadedAtDesc(rows) ==
  IF rows = {} THEN <<>>
  ELSE LET top == CHOOSE r \in rows : \A o \in rows : o.uploaded_at <= r.uploaded_at
       IN  <<top>> \o OrderByUploadedAtDesc(rows \ {top})

\* ----------------------------------------------------------------- requests
\* ?filename=: absent, empty, plain, with directories, ending in a separator
FilenameParams ==
  { None, Some(<<>>), Some(<<"a">>), Some(<<"d", "/", "a">>), Some(<<"d", "\\">>) }
\* request.body: null, or a stream of that many bytes
Bodies == { None, Some(1) }
\* content-length: absent, or a number (wrong or right)
ContentLengths == { None, Some(0), Some(1) }

IdleRequest ==
  [kind |-> "none", pc |-> "idle",
   filenameParam |-> None, body |-> None, contentLength |-> None,
   jsonOk |-> TRUE, id |-> None, url |-> None,
   name |-> <<>>, blobUrl |-> 0, size |-> 0, dbError |-> NoError]

InitialBlobs == { [url |-> 1, name |-> <<"a">>, size |-> 1],
                  [url |-> 2, name |-> <<"b">>, size |-> 1] }
InitialRows == { [id |-> 1, name |-> <<"a">>, size |-> 1, url |-> 1, uploaded_at |-> 1],
                 [id |-> 2, name |-> <<"b">>, size |-> 1, url |-> 2, uploaded_at |-> 2] }

GwInit ==
  /\ variant \in Variants
  /\ blobs = InitialBlobs
  /\ db = InitialRows
  /\ nextUrl = 3
  /\ nextId = 3
  /\ issued = 0
  /\ req = [c \in Clients |-> IdleRequest]
  /\ resp = [c \in Clients |-> NoResponse]
  /\ calls = [c \in Clients |-> <<>>]

\* the handler returns: its response goes out and its locals are gone
Finish(c, response) ==
  /\ resp' = [resp EXCEPT ![c] = response]
  /\ req' = [req EXCEPT ![c] = [IdleRequest EXCEPT !.kind = req[c].kind, !.pc = "done"]]

\* the log of store calls: which call, on which url or id, and whether it succeeded
Call(c, op, key, ok) ==
  calls' = [calls EXCEPT ![c] = Append(@, [op |-> op, key |-> key, ok |-> ok])]

\* ------------------------------------------------------- a client sends a request
\* (the clients are interchangeable: c1 names the one that sends first)
Free(c) ==
  /\ req[c].pc \in {"idle", "done"}
  /\ issued < MaxReq
  /\ c = "c2" => req["c1"].pc # "idle"

Send(c, request) ==
  /\ req' = [req EXCEPT ![c] = request]
  /\ resp' = [resp EXCEPT ![c] = NoResponse]
  /\ calls' = [calls EXCEPT ![c] = <<>>]
  /\ issued' = issued + 1
  /\ UNCHANGED <<variant, blobs, db, nextUrl, nextId>>
  /\ UNCHANGED uiVars

SendGet(c) ==
  /\ Free(c)
  /\ Send(c, [IdleRequest EXCEPT !.kind = "GET", !.pc = "start"])

SendPost(c) ==
  /\ Free(c)
  /\ \E f \in FilenameParams, b \in Bodies, h \in ContentLengths :
       Send(c, [IdleRequest EXCEPT !.kind = "POST", !.pc = "start",
                  !.filenameParam = f, !.body = b, !.contentLength = h])

SendDelete(c) ==
  /\ Free(c)
  /\ \/ Send(c, [IdleRequest EXCEPT !.kind = "DELETE", !.pc = "start", !.jsonOk = FALSE])
     \/ \E i \in {None} \cup {Some(n) : n \in 1..(nextId - 1)},
            u \in {None} \cup {Some(n) : n \in 1..(nextUrl - 1)} :
          Send(c, [IdleRequest EXCEPT !.kind = "DELETE", !.pc = "start",
                     !.id = i, !.url = u])

\* ------------------------------------------------------------------------ GET
GetCatch(error) ==
  jsonError("Falha ao buscar arquivos", Some(ErrorMessage(error)), 500)

Get(c) ==
  /\ req[c].kind = "GET" /\ req[c].pc = "start"
  /\ \/ /\ Call(c, "select", 0, TRUE)
        /\ Finish(c, jsonResponse(OrderByUploadedAtDesc(db), 200))
     \/ /\ Call(c, "select", 0, FALSE)
        /\ Finish(c, GetCatch(ThrownError("select failed")))
  /\ UNCHANGED <<variant, blobs, db, nextUrl, nextId, issued>>
  /\ UNCHANGED uiVars

\* ----------------------------------------------------------------------- POST
PostCatch(error) ==
  jsonError("Falha ao fazer upload do arquivo", Some(ErrorMessage(error)), 500)

\* !filenameParam || !request.body
PostMissing(r) ==
  \/ ~IsSome(r.filenameParam)
  \/ Val(r.filenameParam) = <<>>
  \/ ~IsSome(r.body)

PostStart(c) ==
  /\ req[c].kind = "POST" /\ req[c].pc = "start"
  /\ IF PostMissing(req[c])
       THEN Finish(c, PostBadRequest(variant))
       ELSE /\ req' = [req EXCEPT
                         ![c].name = sanitizedFilename(variant, Val(req[c].filenameParam)),
                         ![c].pc = "put"]
            /\ UNCHANGED resp
  /\ UNCHANGED <<variant, blobs, db, nextUrl, nextId, issued, calls>>
  /\ UNCHANGED uiVars

\* const blob = await put(sanitizedFilename, request.body, { access: 'public' })
PostPut(c) ==
  /\ req[c].kind = "POST" /\ req[c].pc = "put"
  /\ \/ /\ Call(c, "put", nextUrl, TRUE)
        /\ blobs' = blobs \cup
              {[url |-> nextUrl, name |-> req[c].name, size |-> Val(req[c].body)]}
        /\ nextUrl' = nextUrl + 1
        /\ req' = [req EXCEPT ![c].blobUrl = nextUrl,
                              ![c].pc = IF UsesHead(variant) THEN "head" ELSE "insert"]
        /\ UNCHANGED resp
     \/ /\ Call(c, "put", 0, FALSE)
        /\ Finish(c, PostCatch(ThrownError("put failed")))
        /\ UNCHANGED <<blobs, nextUrl>>
  /\ UNCHANGED <<variant, db, nextId, issued>>
  /\ UNCHANGED uiVars

\* const blobMetadata = await head(blob.url)
PostHead(c) ==
  /\ req[c].kind = "POST" /\ req[c].pc = "head"
  /\ \/ \E b \in blobs :
          /\ b.url = req[c].blobUrl
          /\ Call(c, "head", req[c].blobUrl, TRUE)
          /\ req' = [req EXCEPT ![c].size = b.size, ![c].pc = "insert"]
          /\ UNCHANGED resp
     \/ /\ Call(c, "head", req[c].blobUrl, FALSE)
        /\ Finish(c, PostCatch(ThrownError("head failed")))
  /\ UNCHANGED <<variant, blobs, db, nextUrl, nextId, issued>>
  /\ UNCHANGED uiVars

\* supabase.from('contracts').insert(fileDataToInsert).select().single()
PostInsert(c) ==
  /\ req[c].kind = "POST" /\ req[c].pc = "insert"
  /\ \/ LET newContract ==
              [id |-> nextId, name |-> req[c].name,
               size |-> SizeToInsert(variant, req[c].size, req[c].contentLength),
               url |-> req[c].blobUrl, uploaded_at |-> nextId]
        IN  /\ Call(c, "insert", req[c].blobUrl, TRUE)
            /\ db' = db \cup {newContract}
            /\ nextId' = nextId + 1
            /\ Finish(c, jsonResponse(<<newContract>>, 201))
     \/ /\ Call(c, "insert", req[c].blobUrl, FALSE)
        /\ req' = [req EXCEPT ![c].dbError = ThrownError("insert failed"),
                              ![c].pc = "del"]
        /\ UNCHANGED <<db, nextId, resp>>
  /\ UNCHANGED <<variant, blobs, nextUrl, issued>>
  /\ UNCHANGED uiVars

\* (mutation: the insert error is thrown without the compensating delete)
PostDel_NoCompensation(c) ==
  /\ req[c].kind = "POST" /\ req[c].pc = "del"
  /\ Finish(c, PostCatch(req[c].dbError))
  /\ UNCHANGED <<variant, blobs, db, nextUrl, nextId, issued, calls>>
  /\ UNCHANGED uiVars

\* if (dbError) { await del(blob.url); throw dbError; }
PostDel(c) ==
  /\ req[c].kind = "POST" /\ req[c].pc = "del"
  /\ \/ /\ Call(c, "del", req[c].blobUrl, TRUE)
        /\ blobs' = {b \in blobs : b.url # req[c].blobUrl}
        /\ Finish(c, PostCatch(req[c].dbError))
     \/ /\ Call(c, "del", req[c].blobUrl, FALSE)
        /\ Finish(c, PostCatch(ThrownError("del failed")))
        /\ UNCHANGED blobs
  /\ UNCHANGED <<variant, db, nextUrl, nextId, issued>>
  /\ UNCHANGED uiVars

\* --------------------------------------------------------------------- DELETE
DeleteCatch(error) ==
  jsonError("Falha ao excluir o arquivo", Some(ErrorMessage(error)), 500)

\* const { id, url } = await request.json(); if (!id || !url) return 400
DeleteStart(c) ==
  /\ req[c].kind = "DELETE" /\ req[c].pc = "start"
  /\ IF ~req[c].jsonOk
       THEN Finish(c, DeleteCatch(ThrownError("Unexpected end of JSON input")))
       ELSE IF ~IsSome(req[c].id) \/ ~IsSome(req[c].url)
         THEN Finish(c, jsonError("ID e URL do arquivo sao obrigatorios", None, 400))
         ELSE /\ req' = [req EXCEPT ![c].pc = "delBlob"]
              /\ UNCHANGED resp
  /\ UNCHANGED <<variant, blobs, db, nextUrl, nextId, issued, calls>>
  /\ UNCHANGED uiVars

\* (mutation: a failed blob delete is swallowed and the row is deleted anyway)
DeleteBlob_ContinuesOnFailure(c) ==
  /\ req[c].kind = "DELETE" /\ req[c].pc = "delBlob"
  /\ \/ /\ Call(c, "del", Val(req[c].url), TRUE)
        /\ blobs' = {b \in blobs : b.url # Val(req[c].url)}
     \/ /\ Call(c, "del", Val(req[c].url), FALSE)
        /\ UNCHANGED blobs
  /\ req' = [req EXCEPT ![c].pc = "delRow"]
  /\ UNCHANGED <<variant, db, nextUrl, nextId, issued, resp>>
  /\ UNCHANGED uiVars

\* await del(url)
DeleteBlob(c) ==
  /\ req[c].kind = "DELETE" /\ req[c].pc = "delBlob"
  /\ \/ /\ Call(c, "del", Val(req[c].url), TRUE)
        /\ blobs' = {b \in blobs : b.url # Val(req[c].url)}
        /\ req' = [req EXCEPT ![c].pc = "delRow"]
        /\ UNCHANGED resp
     \/ /\ Call(c, "del", Val(req[c].url), FALSE)
        /\ Finish(c, DeleteCatch(ThrownError("del failed")))
        /\ UNCHANGED blobs
  /\ UNCHANGED <<variant, db, nextUrl, nextId, issued>>
  /\ UNCHANGED uiVars

\* (mutation: the `if (dbError) throw dbError` is missing)
DeleteRow_IgnoresDbError(c) ==
  /\ req[c].kind = "DELETE" /\ req[c].pc = "delRow"
  /\ \/ /\ Call(c, "delete", Val(req[c].id), TRUE)
        /\ db' = {r \in db : r.id # Val(req[c].id)}
     \/ /\ Call(c, "delete", Val(req[c].id), FALSE)
        /\ UNCHANGED db
  /\ Finish(c, jsonResponse(<<>>, 200))
  /\ UNCHANGED <<variant, blobs, nextUrl, nextId, issued>>
  /\ UNCHANGED uiVars

\* supabase.from('contracts').delete().eq('id', id); if (dbError) throw dbError
DeleteRow(c) ==
  /\ req[c].kind = "DELETE" /\ req[c].pc = "delRow"
  /\ \/ /\ Call(c, "delete", Val(req[c].id), TRUE)
        /\ db' = {r \in db : r.id # Val(req[c].id)}
        /\ Finish(c, jsonResponse(<<>>, 200))
     \/ /\ Call(c, "delete", Val(req[c].id), FALSE)
        /\ Finish(c, DeleteCatch(ThrownError("delete failed")))
        /\ UNCHANGED db
  /\ UNCHANGED <<variant, blobs, nextUrl, nextId, issued>>
  /\ UNCHANGED uiVars


\* ================================================ the browser application
\* String.prototype.endsWith
EndsWith(s, suffix) ==
  /\ Len(s) >= Len(suffix)
  /\ SubSeq(s, Len(s) - Len(suffix) + 1, Len(s)) = suffix

\* the files a user may pick or drop: [name, type, size]; one is a zip by its
\* name only, one by its declared type only, one by neither
CandidateFiles ==
  { [name |-> <<"b", ".zip">>, type |-> "", size |-> 20],
    [name |-> <<"c", ".txt">>, type |-> "application/zip", size |-> 30],
    [name |-> <<"d", ".txt">>, type |-> "text/plain", size |-> 40] }

\* const initialFiles, in array order (ages in days before the page load)
initialFiles ==
  << [id |-> 1, name |-> <<"contrato_cliente_alpha_", "2023", ".zip">>,
      size |-> 1258291, uploadedAt |-> 2],
     [id |-> 2, name |-> <<"documentacao_parceria_beta_", "2024", ".zip">>,
      size |-> 5242880, uploadedAt |-> 3],
     [id |-> 3, name |-> <<"aditivo_contratual_gama_", "2023", ".zip">>,
      size |-> 8388608, uploadedAt |-> 1] >>

\* the options of <select className="sort-select">
SortOptions == {"date-desc", "date-asc", "name-asc", "name-desc"}

\* what a user may type in the search box (whole pieces of the names above)
SearchTerms == { <<>>, <<"2023", ".ZIP">> }

\* String.prototype.toLowerCase, piece by piece
toLowerCase(s) ==
  [i \in 1..Len(s) |-> IF s[i] = ".ZIP" THEN ".zip" ELSE s[i]]

\* String.prototype.includes
includes(s, term) ==
  \E i \in 1..(Len(s) + 1) :
    /\ i + Len(term) - 1 <= Len(s)
    /\ SubSeq(s, i, i + Len(term) - 1) = term

\* the names the application can show, in the order localeCompare puts them
Alphabetical ==
  << <<"aditivo_contratual_gama_", "2023", ".zip">>,
     <<"b", ".zip">>,
     <<"c", ".txt">>,
     <<"contrato_cliente_alpha_", "2023", ".zip">>,
     <<"documentacao_parceria_beta_", "2024", ".zip">> >>

Rank(name) == CHOOSE i \in 1..Len(Alphabetical) : Alphabetical[i] = name

\* String.prototype.localeCompare: negative, zero or positive
localeCompare(a, b) == Rank(a) - Rank(b)

\* the comparator handed to Array.prototype.sort
compare(option, a, b) ==
  CASE option = "name-asc" -> localeCompare(a.name, b.name)
    [] option = "name-desc" -> localeCompare(b.name, a.name)
    [] option = "date-asc" -> a.uploadedAt - b.uploadedAt
    [] OTHER -> b.uploadedAt - a.uploadedAt

\* Array.prototype.sort is stable: x goes behind everything that is not after it
InsertSorted(sorted, x, option) ==
  LET n == Cardinality({i \in 1..Len(sorted) : compare(option, sorted[i], x) <= 0})
  IN  SubSeq(sorted, 1, n) \o <<x>> \o SubSeq(sorted, n + 1, Len(sorted))

RECURSIVE sort(_, _)
sort(array, option) ==
  IF array = <<>> THEN <<>>
  ELSE InsertSorted(sort(SubSeq(array, 1, Len(array) - 1), option),
                    array[Len(array)], option)

\* uploadedFiles.filter(file => file.name.toLowerCase().includes(searchTerm.toLowerCase()))
filter(array, term) ==
  SelectSeq(array, LAMBDA f : includes(toLowerCase(f.name), toLowerCase(term)))

\* (mutation: the collection itself is sorted, Array.prototype.sort works in place)
filteredAndSortedFiles_SortsInPlace(array, term, option) ==
  [visible |-> filter(sort(array, option), term), source |-> sort(array, option)]

\* useMemo(() => uploadedFiles.filter(...).sort(...)): what FileList is given, and
\* what the array uploadedFiles holds afterwards (filter returns a new array, so
\* the in-place sort works on the copy)
filteredAndSortedFiles(array, term, option) ==
  [visible |-> sort(filter(array, term), option), source |-> array]

\* a render of App after a change of its state: the memo is recomputed, and since
\* removeNotification is a new function on every render, the effect of every
\* Notification runs again: clearTimeout(timer), then a new setTimeout
AppRender(array, term, option, candidate, shown) ==
  LET memo == filteredAndSortedFiles(array, term, option)
  IN  /\ uploadedFiles' = memo.source
      /\ visibleFiles' = memo.visible
      /\ searchTerm' = term
      /\ sortOption' = option
      /\ fileToDelete' = candidate
      /\ notifications' = shown
      /\ timers' = [i \in 1..Len(shown) |-> now]

\* the state of App after its first render
PageInit ==
  /\ uploadedFiles = initialFiles
  /\ notifications = <<>>
  /\ now = 3
  /\ nextUuid = 4
  /\ fileToDelete = None
  /\ searchTerm = <<>>
  /\ sortOption = "date-desc"
  /\ visibleFiles = filteredAndSortedFiles(initialFiles, <<>>, "date-desc").visible
  /\ timers = <<>>

\* const newNotification = { id: Date.now(), message, type };
\* setNotifications(prev => [...prev, newNotification])
addNotification(prev, message, type) ==
  Append(prev, [id |-> now, message |-> message, type |-> type])

\* setNotifications(prev => prev.filter(n => n.id !== id))
removeNotification(prev, id) ==
  SelectSeq(prev, LAMBDA n : n.id # id)

\* a render of App in which only the notifications changed
Notify(shown) ==
  AppRender(uploadedFiles, searchTerm, sortOption, fileToDelete, shown)

\* (mutation: the negation of endsWith is lost)
InvalidFormat_AcceptsOtherExtensions(selectedFile) ==
  selectedFile.type # "application/zip" /\ EndsWith(selectedFile.name, <<".zip">>)

\* selectedFile.type !== 'application/zip' && !selectedFile.name.endsWith('.zip')
InvalidFormat(selectedFile) ==
  selectedFile.type # "application/zip" /\ ~EndsWith(selectedFile.name, <<".zip">>)

\* room for one more notification on the screen (bound of the model)
NotifRoom == Len(notifications) < MaxNotifs

\* handleFileChange(selectedFile), selectedFile an optional file
handleFileChange(selectedFile) ==
  IF ~IsSome(selectedFile)
    THEN UNCHANGED <<file, appState>>
    ELSE IF InvalidFormat(Val(selectedFile))
      THEN /\ NotifRoom
           /\ Notify(addNotification(notifications,
                 "Formato de arquivo invalido. Por favor, envie apenas arquivos .zip.",
                 "error"))
           /\ file' = None
      ELSE /\ file' = selectedFile
           /\ UNCHANGED appState

FileInputs == {None} \cup {Some(f) : f \in CandidateFiles}

\* what the handlers of App.tsx never touch
notApp == <<gwVars, indexVars, apiVars, formatVars, running>>

\* <input type="file" onChange={onFileSelect} disabled={isUploading} />
onFileSelect ==
  /\ ~isUploading
  /\ \E selectedFile \in FileInputs : handleFileChange(selectedFile)
  /\ UNCHANGED <<isUploading, pending, now, nextUuid>>
  /\ UNCHANGED notApp

\* <div className="drop-zone" onDrop={onDrop}>
onDrop ==
  /\ \E droppedFile \in FileInputs : handleFileChange(droppedFile)
  /\ UNCHANGED <<isUploading, pending, now, nextUuid>>
  /\ UNCHANGED notApp

\* (mutation: the button is disabled only when no file is selected)
UploadButtonDisabled_IgnoresBusy == ~IsSome(file)

\* <button onClick={handleUpload} disabled={!file || isUploading}>
UploadButtonDisabled == ~IsSome(file) \/ isUploading

\* handleUpload up to its await: if (!file) return; setIsUploading(true)
handleUpload ==
  /\ ~UploadButtonDisabled
  /\ Len(uploadedFiles) < Len(initialFiles) + MaxUploads
  /\ IF ~IsSome(file)
       THEN UNCHANGED <<isUploading, pending>>
       ELSE /\ isUploading' = TRUE
            /\ pending' = Append(pending, Val(file))
  /\ UNCHANGED <<file, appState, now, nextUuid>>
  /\ UNCHANGED notApp

\* handleUpload after its await, success branch (Math.random() > 0.1):
\* onUploadSuccess(newUploadedFile) is setUploadedFiles(prev => [newFile, ...prev])
UploadSucceeds ==
  /\ pending # <<>>
  /\ NotifRoom
  /\ LET newUploadedFile ==
           [id |-> nextUuid, name |-> Head(pending).name,
            size |-> Head(pending).size, uploadedAt |-> now]
     IN  AppRender(<<newUploadedFile>> \o uploadedFiles, searchTerm, sortOption,
                   fileToDelete,
                   addNotification(notifications, "Arquivo enviado com sucesso!", "success"))
  /\ nextUuid' = nextUuid + 1
  /\ file' = None
  /\ isUploading' = FALSE
  /\ pending' = Tail(pending)
  /\ UNCHANGED now
  /\ UNCHANGED notApp

\* handleUpload after its await, throw new Error('Falha simulada no upload.')
UploadFails ==
  /\ pending # <<>>
  /\ NotifRoom
  /\ Notify(addNotification(notifications, "Falha simulada no upload.", "error"))
  /\ isUploading' = FALSE
  /\ pending' = Tail(pending)
  /\ UNCHANGED <<file, now, nextUuid>>
  /\ UNCHANGED notApp

\* the close button of a notification: onClose(notification.id)
CloseNotification ==
  /\ \E i \in 1..Len(notifications) :
       Notify(removeNotification(notifications, notifications[i].id))
  /\ UNCHANGED <<uploaderVars, now, nextUuid>>
  /\ UNCHANGED notApp

\* setTimeout(() => onClose(notification.id), 5000), in clock ticks of 2500 ms
NotificationDelay == 2

\* the timer of a notification has run its delay
Due(i) == now >= timers[i] + NotificationDelay

\* the timer of a notification fires: onClose(notification.id)
NotificationTimeout ==
  /\ \E i \in 1..Len(notifications) :
       /\ Due(i)
       /\ Notify(removeNotification(notifications, notifications[i].id))
  /\ UNCHANGED <<uploaderVars, now, nextUuid>>
  /\ UNCHANGED notApp

\* time passes, one tick; a timer that is due fires first
Tick ==
  /\ now < 3 + MaxTicks
  /\ \A i \in 1..Len(notifications) : ~Due(i)
  /\ now' = now + 1
  /\ UNCHANGED <<uploaderVars, appState, nextUuid>>
  /\ UNCHANGED notApp

\* <input className="search-input" onChange={(e) => onSearchChange(e.target.value)} />
setSearchTerm ==
  /\ \E term \in SearchTerms \ {searchTerm} :
       AppRender(uploadedFiles, term, sortOption, fileToDelete, notifications)
  /\ UNCHANGED <<uploaderVars, now, nextUuid>>
  /\ UNCHANGED notApp

\* <select className="sort-select" onChange={(e) => onSortChange(e.target.value)}>
setSortOption ==
  /\ \E option \in SortOptions \ {sortOption} :
       AppRender(uploadedFiles, searchTerm, option, fileToDelete, notifications)
  /\ UNCHANGED <<uploaderVars, now, nextUuid>>
  /\ UNCHANGED notApp

\* the delete button of a FileItem: handleDeleteRequest(file) is setFileToDelete(file)
handleDeleteRequest ==
  /\ \E i \in 1..Len(visibleFiles) :
       /\ Some(visibleFiles[i]) # fileToDelete
       /\ AppRender(uploadedFiles, searchTerm, sortOption, Some(visibleFiles[i]),
                    notifications)
  /\ UNCHANGED <<uploaderVars, now, nextUuid>>
  /\ UNCHANGED notApp

\* the download button of a FileItem: handleDownload(file)
handleDownload ==
  /\ visibleFiles # <<>>
  /\ NotifRoom
  /\ Notify(addNotification(notifications, "Download iniciado.", "success"))
  /\ UNCHANGED <<uploaderVars, now, nextUuid>>
  /\ UNCHANGED notApp

\* (mutation: the filter keeps the record to delete and drops the others)
WithoutId_KeepsOnlyIt(array, id) ==
  SelectSeq(array, LAMBDA f : f.id = id)

\* prevFiles.filter(f => f.id !== fileToDelete.id)
WithoutId(array, id) ==
  SelectSeq(array, LAMBDA f : f.id # id)

\* "Excluir" in the ConfirmationModal (shown while fileToDelete is set)
handleConfirmDelete ==
  /\ IsSome(fileToDelete)
  /\ NotifRoom
  /\ AppRender(WithoutId(uploadedFiles, Val(fileToDelete).id), searchTerm, sortOption,
               None,
               addNotification(notifications, "Arquivo excluido com sucesso.", "success"))
  /\ UNCHANGED <<uploaderVars, now, nextUuid>>
  /\ UNCHANGED notApp

\* (mutation: cancelling also removes the candidate from the collection)
handleCloseModal_Deletes ==
  /\ IsSome(fileToDelete)
  /\ AppRender(WithoutId(uploadedFiles, Val(fileToDelete).id), searchTerm, sortOption,
               None, notifications)
  /\ UNCHANGED <<uploaderVars, now, nextUuid>>
  /\ UNCHANGED notApp

\* "Cancelar", or a click on the overlay of the ConfirmationModal
handleCloseModal ==
  /\ IsSome(fileToDelete)
  /\ AppRender(uploadedFiles, searchTerm, sortOption, None, notifications)
  /\ UNCHANGED <<uploaderVars, now, nextUuid>>
  /\ UNCHANGED notApp

\* ===================================== the status-based widget (src/index.tsx)
IndexInit ==
  /\ status = "idle"
  /\ errorMessage = ""
  /\ resetTimers = 0

\* handleFileChange of index.tsx: setStatus('idle'); setErrorMessage(''); then the
\* same format check as in App.tsx
Index_handleFileChange(selectedFile) ==
  IF IsSome(selectedFile) /\ InvalidFormat(Val(selectedFile))
    THEN /\ status' = "error"
         /\ errorMessage' =
              "Formato de arquivo invalido. Por favor, envie apenas arquivos .zip."
         /\ file' = None
    ELSE /\ status' = "idle"
         /\ errorMessage' = ""
         /\ file' = IF IsSome(selectedFile) THEN selectedFile ELSE file

\* what the handlers of the FileUploader of index.tsx never touch
notIndexUploader ==
  <<gwVars, apiVars, formatVars, running, isUploading, notifications, fileToDelete,
    searchTerm, sortOption, timers, now>>

\* <input type="file" id="file-input" onChange={onFileSelect} /> (never disabled)
Index_onFileSelect ==
  /\ \E selectedFile \in FileInputs : Index_handleFileChange(selectedFile)
  /\ UNCHANGED <<pending, uploadedFiles, visibleFiles, resetTimers, nextUuid>>
  /\ UNCHANGED notIndexUploader

\* <div className="drop-zone" onDrop={onDrop}>
Index_onDrop ==
  /\ \E droppedFile \in FileInputs : Index_handleFileChange(droppedFile)
  /\ UNCHANGED <<pending, uploadedFiles, visibleFiles, resetTimers, nextUuid>>
  /\ UNCHANGED notIndexUploader

\* <button onClick={handleUpload} disabled={!file || status === 'uploading'}>
Index_UploadButtonDisabled == ~IsSome(file) \/ status = "uploading"

\* handleUpload up to its await: if (!file) return; setStatus('uploading')
Index_handleUpload ==
  /\ ~Index_UploadButtonDisabled
  /\ Len(uploadedFiles) + Len(pending) < Len(initialFiles) + MaxUploads
  /\ IF ~IsSome(file)
       THEN UNCHANGED <<status, pending>>
       ELSE /\ status' = "uploading"
            /\ pending' = Append(pending, Val(file))
  /\ UNCHANGED <<file, errorMessage, uploadedFiles, visibleFiles, resetTimers, nextUuid>>
  /\ UNCHANGED notIndexUploader

\* handleUpload after its await, success branch: onUploadSuccess(newUploadedFile),
\* setStatus('success'), setFile(null), setTimeout(() => setStatus('idle'), 3000)
Index_UploadSucceeds ==
  /\ pending # <<>>
  /\ LET newUploadedFile ==
           [id |-> nextUuid, name |-> Head(pending).name,
            size |-> Head(pending).size, uploadedAt |-> now]
         memo == filteredAndSortedFiles(<<newUploadedFile>> \o uploadedFiles,
                                        searchTerm, sortOption)
     IN  /\ uploadedFiles' = memo.source
         /\ visibleFiles' = memo.visible
  /\ nextUuid' = nextUuid + 1
  /\ status' = "success"
  /\ file' = None
  /\ resetTimers' = resetTimers + 1
  /\ pending' = Tail(pending)
  /\ UNCHANGED errorMessage
  /\ UNCHANGED notIndexUploader

\* handleUpload after its await, throw new Error('Falha simulada no upload.')
Index_UploadFails ==
  /\ pending # <<>>
  /\ status' = "error"
  /\ errorMessage' = "Falha simulada no upload."
  /\ pending' = Tail(pending)
  /\ UNCHANGED <<file, uploadedFiles, visibleFiles, resetTimers, nextUuid>>
  /\ UNCHANGED notIndexUploader

\* the callback of setTimeout(() => setStatus('idle'), 3000)
Index_ResetStatus ==
  /\ resetTimers > 0
  /\ resetTimers' = resetTimers - 1
  /\ status' = "idle"
  /\ UNCHANGED <<file, errorMessage, pending, uploadedFiles, visibleFiles, nextUuid>>
  /\ UNCHANGED notIndexUploader

\* =========================================== the mock store (src/src/api.ts)
\* const initialFiles of api.ts: the same records, each with its url
\* (`/mock-download/${name}`, written as the name)
MockUrl(name) == name

MockInitialFiles ==
  [i \in 1..Len(initialFiles) |->
     [id |-> initialFiles[i].id, name |-> initialFiles[i].name,
      size |-> initialFiles[i].size, uploadedAt |-> initialFiles[i].uploadedAt,
      url |-> MockUrl(initialFiles[i].name)]]

\* let files = [...initialFiles]
ApiInit ==
  /\ files = MockInitialFiles
  /\ apiCalls = <<>>
  /\ apiResults = <<>>

notApi == <<gwVars, appVars, indexVars, formatVars, running>>

\* a caller starts getFiles(), uploadFile(file) or deleteFile(fileId): the call
\* waits at `await new Promise(resolve => setTimeout(resolve, ...))`
ApiCall ==
  /\ Len(apiCalls) + Len(apiResults) < MaxCalls
  /\ \E call \in {[op |-> "getFiles", arg |-> None]}
          \cup {[op |-> "uploadFile", arg |-> Some(f)] : f \in CandidateFiles}
          \cup {[op |-> "deleteFile", arg |-> Some(id)] : id \in 1..nextUuid} :
       apiCalls' = Append(apiCalls, call)
  /\ UNCHANGED <<files, apiResults>>
  /\ UNCHANGED notApi

\* the delay of call j is over: uploadFile waits 2 * ARTIFICIAL_DELAY, the other
\* two wait ARTIFICIAL_DELAY, so a call overtakes only uploads started before it
DelayOver(j) ==
  \A i \in 1..(j - 1) :
    apiCalls[i].op = "uploadFile" /\ apiCalls[j].op # "uploadFile"

Without(s, j) == SubSeq(s, 1, j - 1) \o SubSeq(s, j + 1, Len(s))

Settle(j, ok, value) ==
  /\ apiResults' = Append(apiResults,
       [op |-> apiCalls[j].op, arg |-> apiCalls[j].arg, ok |-> ok, value |-> value])
  /\ apiCalls' = Without(apiCalls, j)

\* getFiles after its await: return [...files]
getFiles ==
  /\ \E j \in 1..Len(apiCalls) :
       /\ apiCalls[j].op = "getFiles"
       /\ DelayOver(j)
       /\ Settle(j, TRUE, files)
  /\ UNCHANGED files
  /\ UNCHANGED notApi

\* uploadFile after its await: it throws (Math.random() < 0.1), or it puts the
\* new record in front
uploadFile ==
  /\ \E j \in 1..Len(apiCalls) :
       /\ apiCalls[j].op = "uploadFile"
       /\ DelayOver(j)
       /\ \/ /\ Settle(j, FALSE, <<>>)
             /\ UNCHANGED <<files, nextUuid>>
          \/ LET f == Val(apiCalls[j].arg)
                 newUploadedFile ==
                   [id |-> nextUuid, name |-> f.name, size |-> f.size,
                    uploadedAt |-> now, url |-> MockUrl(f.name)]
             IN  /\ files' = <<newUploadedFile>> \o files
                 /\ nextUuid' = nextUuid + 1
                 /\ Settle(j, TRUE, <<newUploadedFile>>)
  /\ UNCHANGED <<gwVars, uploaderVars, appState, now, indexVars, formatVars, running>>

deleteFile_NeverRejects ==
  /\ \E j \in 1..Len(apiCalls) :
       /\ apiCalls[j].op = "deleteFile"
       /\ DelayOver(j)
       /\ files' = SelectSeq(files, LAMBDA f : f.id # Val(apiCalls[j].arg))
       /\ Settle(j, TRUE, <<>>)
  /\ UNCHANGED notApi

\* deleteFile after its await: files = files.filter(f => f.id !== fileId), and
\* 'Arquivo nao encontrado.' is thrown when the length did not change
deleteFile ==
  /\ \E j \in 1..Len(apiCalls) :
       /\ apiCalls[j].op = "deleteFile"
       /\ DelayOver(j)
       /\ LET initialLength == Len(files)
              kept == SelectSeq(files, LAMBDA f : f.id # Val(apiCalls[j].arg))
          IN  /\ files' = kept
              /\ Settle(j, Len(kept) # initialLength, <<>>)
  /\ UNCHANGED notApi

\* ================================================================ formatBytes
\* const k = 1024
k == 1024

\* const sizes = ['Bytes', 'KB', 'MB', 'GB', 'TB']
sizes == <<"Bytes", "KB", "MB", "GB", "TB">>

\* a byte count is written in base k, least significant digit first, without
\* leading zeros (0 is the empty sequence): counts up to k^MaxDigits - 1
Digits == {0, 1, k - 1}

ByteCounts ==
  { b \in UNION {[1..n -> Digits] : n \in 0..MaxDigits} :
      b # <<>> => b[Len(b)] # 0 }

\* Math.floor(Math.log(bytes) / Math.log(k)) for bytes >= 1: how many times
\* bytes can be divided by k before it is below k
RECURSIVE FloorLog(_)
FloorLog(b) == IF Len(b) <= 1 THEN 0 ELSE 1 + FloorLog(Tail(b))

\* sizes[i] of JavaScript: undefined beyond the end of the array, and
\* string + undefined appends 'undefined'
At(array, i) == IF i + 1 <= Len(array) THEN array[i + 1] ELSE "undefined"

\* formatBytes(bytes): the integer part of bytes / Math.pow(k, i), and the unit
formatBytes(b) ==
  IF b = <<>> THEN [whole |-> 0, unit |-> "Bytes"]
  ELSE LET i == FloorLog(b)
       IN  [whole |-> b[i + 1], unit |-> At(sizes, i)]

FormatIdle ==
  /\ bytes = <<>>
  /\ formatted = None

\* a FileItem (or the file-info line) renders formatBytes(file.size)
Format ==
  /\ formatted = None
  /\ formatted' = Some(formatBytes(bytes))
  /\ UNCHANGED bytes
  /\ UNCHANGED <<gwVars, appVars, indexVars, apiVars, running>>

\* ----------------------------------------------------------------------- spec
Next ==
  \E c \in Clients :
    \/ SendGet(c)
    \/ SendPost(c)
    \/ SendDelete(c)
    \/ Get(c)
    \/ PostStart(c)
    \/ PostPut(c)
    \/ PostHead(c)
    \/ PostInsert(c)
    \/ PostDel(c)
    \/ DeleteStart(c)
    \/ DeleteBlob(c)
    \/ DeleteRow(c)

\* the page as loaded, nothing selected
UploaderInit ==
  /\ file = None
  /\ isUploading = FALSE
  /\ pending = <<>>

AppInit == UploaderInit /\ PageInit

\* everything at rest; p is the part of the repository that will run
Boot(p) ==
  /\ GwInit
  /\ PageInit
  /\ IndexInit
  /\ ApiInit
  /\ running = p

\* the gateway, with the application idle
Init == Boot("gateway") /\ UploaderInit /\ FormatIdle

Spec == Init /\ [][Next]_vars

\* the uploader and the notifications of App.tsx, as time passes
AppNext ==
  \/ onFileSelect
  \/ onDrop
  \/ handleUpload
  \/ UploadSucceeds
  \/ UploadFails
  \/ CloseNotification
  \/ NotificationTimeout
  \/ Tick

AppStart == Boot("App.tsx") /\ UploaderInit /\ FormatIdle /\ variant = "part_000"

AppSpec == AppStart /\ [][AppNext]_vars

\* the file list and the delete dialog of App.tsx, while an upload started
\* earlier is still running
ListNext ==
  \/ setSearchTerm
  \/ setSortOption
  \/ handleDeleteRequest
  \/ handleConfirmDelete
  \/ handleCloseModal
  \/ handleDownload
  \/ UploadSucceeds
  \/ UploadFails
  \/ CloseNotification

UploaderBusy ==
  \E f \in {c \in CandidateFiles : ~InvalidFormat(c)} :
    /\ file = Some(f)
    /\ isUploading = TRUE
    /\ pending = <<f>>

ListStart == Boot("App.tsx") /\ UploaderBusy /\ FormatIdle /\ variant = "part_000"

ListSpec == ListStart /\ [][ListNext]_vars

\* the upload widget of index.tsx, as time passes
IndexNext ==
  \/ Tick
  \/ Index_onFileSelect
  \/ Index_onDrop
  \/ Index_handleUpload
  \/ Index_UploadSucceeds
  \/ Index_UploadFails
  \/ Index_ResetStatus

IndexStart == Boot("index.tsx") /\ UploaderInit /\ FormatIdle /\ variant = "part_000"

IndexSpec == IndexStart /\ [][IndexNext]_vars

\* the mock store
ApiNext ==
  \/ ApiCall
  \/ getFiles
  \/ uploadFile
  \/ deleteFile

ApiStart == Boot("api.ts") /\ UploaderInit /\ FormatIdle /\ variant = "part_000"

ApiSpec == ApiStart /\ [][ApiNext]_vars

\* the upload widget, in either of its two sources
WidgetNext ==
  \/ running = "App.tsx" /\ AppNext
  \/ running = "index.tsx" /\ IndexNext

WidgetStart == AppStart \/ IndexStart

WidgetSpec == WidgetStart /\ [][WidgetNext]_vars

\* the removal of a record, in the page and in the mock store
RemovalNext ==
  \/ running = "App.tsx" /\ ListNext
  \/ running = "api.ts" /\ ApiNext

RemovalStart == ListStart \/ ApiStart

RemovalSpec == RemovalStart /\ [][RemovalNext]_vars

\* formatBytes on every byte count of the bounded range
FormatStart ==
  /\ Boot("formatBytes") /\ UploaderInit /\ variant = "part_000"
  /\ bytes \in ByteCounts
  /\ formatted = None

FormatSpec == FormatStart /\ [][Format]_vars

\* ===================================================================== claims
Urls(store) == {x.url : x \in store}

Done(c, kind) == req[c].kind = kind /\ req[c].pc = "done"

Failed(c, op) == \E i \in 1..Len(calls[c]) : calls[c][i].op = op /\ ~calls[c][i].ok

Succeeded(c, op) == \E i \in 1..Len(calls[c]) : calls[c][i].op = op /\ calls[c][i].ok

\* the handler of client c takes the step from program point `from`
Steps(c, kind, from) ==
  req[c].kind = kind /\ req[c].pc = from /\ req'[c].pc # from

\* C1: Create: when the blob write succeeds and the database insert then
\* fails, the handler's next call, made before it returns, is the delete of the
\* url it has just written, and the response is 500; when that delete succeeds,
\* the blob store holds no blob with that url and the table no row with it.
C1_InsertFailureDeletesBlob ==
  \A c \in Clients :
    \A i \in 1..Len(calls[c]) :
      (calls[c][i].op = "insert" /\ ~calls[c][i].ok /\ req[c].pc = "done") =>
        /\ \E j \in 1..(i - 1) :
             calls[c][j] = [op |-> "put", key |-> calls[c][i].key, ok |-> TRUE]
        /\ Len(calls[c]) = i + 1
        /\ calls[c][i + 1].op = "del"
        /\ calls[c][i + 1].key = calls[c][i].key
        /\ resp[c].status = 500
        /\ calls[c][i + 1].ok =>
             /\ calls[c][i].key \notin Urls(blobs)
             /\ calls[c][i].key \notin Urls(db)

\* C1 witness: a Create has returned 500 after put succeeded, insert failed and
\* the compensating delete succeeded.
C1_Witness ==
  \E c \in Clients :
    /\ Done(c, "POST")
    /\ Succeeded(c, "put") /\ Failed(c, "insert") /\ Succeeded(c, "del")
    /\ resp[c].status = 500

\* C2 (as claimed): Create: when put succeeds, insert fails and the compensating
\* delete fails too, the blob stays as an orphan and the details of the 500 are
\* the insert error's message.
C2_Claimed_SurfacesInsertError ==
  \A c \in Clients :
    (Done(c, "POST") /\ Failed(c, "insert") /\ Failed(c, "del")) =>
      /\ resp[c].status = 500
      /\ resp[c].details = Some("insert failed")

\* C3: Delete: the step on which the blob delete fails returns 500, ends the
\* handler without any database call and leaves the table as it is, so the row
\* with the given id is still there; and every List that succeeds returns
\* exactly the rows of the table.
C3_BlobDeleteFailureKeepsRow ==
  [][\A c \in Clients :
       /\ (Steps(c, "DELETE", "delBlob") /\ ~calls'[c][Len(calls'[c])].ok) =>
            /\ req'[c].pc = "done"
            /\ resp'[c].status = 500
            /\ ~\E i \in 1..Len(calls'[c]) : calls'[c][i].op = "delete"
            /\ db' = db
            /\ \A r \in db : r.id = Val(req[c].id) => r \in db'
       /\ (Steps(c, "GET", "start") /\ calls'[c][Len(calls'[c])].ok) =>
            /\ resp'[c].status = 200
            /\ {resp'[c].body[n] : n \in 1..Len(resp'[c].body)} = db
            /\ Len(resp'[c].body) = Cardinality(db)
    ]_vars

\* C3 witness: a Delete has returned 500 on a failed blob delete of url u, and
\* a List of the other client returns the row of that url.
C3_Witness ==
  \E c \in Clients, d \in Clients :
    /\ Done(c, "DELETE") /\ calls[c] # <<>> /\ ~calls[c][1].ok
    /\ calls[c][1].op = "del" /\ resp[c].status = 500
    /\ Done(d, "GET") /\ resp[d].status = 200
    /\ \E n \in 1..Len(resp[d].body) : resp[d].body[n].url = calls[c][1].key

C5_Claimed_BadRequestHasDetails ==
  [][\A c \in Clients :
       (Steps(c, "POST", "start") /\ PostMissing(req[c])) =>
          /\ req'[c].pc = "done"
          /\ resp'[c].status = 400
          /\ IsSome(resp'[c].details)
          /\ calls'[c] = <<>>
          /\ blobs' = blobs /\ db' = db
    ]_vars

\* C6 (as claimed): Delete: every request whose body does not supply both an id
\* and a url is answered with 400, and no store call is made.
C6_Claimed_MissingIdOrUrlIs400 ==
  [][\A c \in Clients :
       (/\ Steps(c, "DELETE", "start")
        /\ (~req[c].jsonOk \/ ~IsSome(req[c].id) \/ ~IsSome(req[c].url))) =>
          /\ req'[c].pc = "done"
          /\ resp'[c].status = 400
          /\ calls'[c] = <<>>
          /\ blobs' = blobs /\ db' = db
    ]_vars

\* the part of s after its last separator (s itself when it has none)
AfterLastSeparator(s) ==
  LET seps == {i \in 1..Len(s) : IsSeparator(s[i])}
  IN  IF seps = {} THEN s
      ELSE SubSeq(s, (CHOOSE i \in seps : \A j \in seps : j <= i) + 1, Len(s))

\* C7 (as claimed): Create, sanitizing variant: for every non-empty filename
\* parameter the name used is the part after the last separator, or the fallback
\* name when that part is empty, so it is never empty and holds no separator.
C7_Claimed_FallbackWhenEmpty ==
  [][\A c \in Clients :
       (Steps(c, "POST", "start") /\ variant = "part_000" /\ req'[c].pc = "put") =>
          LET last == AfterLastSeparator(Val(req[c].filenameParam))
          IN  /\ req'[c].name = IF last = <<>> THEN FallbackName ELSE last
              /\ req'[c].name # <<>>
              /\ \A i \in 1..Len(req'[c].name) : ~IsSeparator(req'[c].name[i])
    ]_vars

\* C8 (as claimed): Create: the size of the row inserted equals the size the
\* blob store holds for the blob just written, whatever the content-length
\* header of the request is.
C8_Claimed_SizeFromBlobStore ==
  [][\A c \in Clients :
       (Steps(c, "POST", "insert") /\ calls'[c][Len(calls'[c])].ok) =>
          \A r \in db' \ db :
            /\ r.url = req[c].blobUrl
            /\ r.size = Val(req[c].body)
            /\ \A b \in blobs : b.url = r.url => r.size = b.size
    ]_vars

\* C9: upload widget: at most one handleUpload is waiting at its await at any
\* time, and while one is, the widget is in the uploading state.
C9_OneUploadInFlight ==
  /\ Len(pending) <= 1
  /\ pending # <<>> => isUploading

\* C9 witness: an upload is in flight and a file dropped in the meantime has
\* replaced the selection it started with.
C9_Witness ==
  /\ Len(pending) = 1
  /\ isUploading
  /\ IsSome(file)
  /\ Val(file) # Head(pending)

\* C10 (as claimed): upload widget: the step on which an upload ends in error
\* emits an error notification, leaves the uploading state, leaves the
\* collection as it is, and the file selected when the upload started is still
\* the selected file.
C10_Claimed_FailedUploadKeepsSelection ==
  [][(Len(pending') < Len(pending) /\ uploadedFiles' = uploadedFiles) =>
        /\ Len(notifications') = Len(notifications) + 1
        /\ notifications'[Len(notifications')].type = "error"
        /\ ~isUploading'
        /\ file' = Some(Head(pending))
    ]_vars

\* a zip by its name or by its declared type
ZipByNameOrType(f) ==
  f.type = "application/zip" \/ EndsWith(f.name, <<".zip">>)

InvalidFormatMessage ==
  "Formato de arquivo invalido. Por favor, envie apenas arquivos .zip."

\* C11: file selection gate, in App.tsx and in index.tsx: the selected file and
\* the file of every upload call are zips by name or by declared type; and a
\* pick or a drop of a file that is neither leaves no file selected and shows
\* the error message (an error notification in App.tsx, the 'error' status
\* with its message in index.tsx).
C11_OnlyZipIsSelectedOrUploaded ==
  [][ /\ IsSome(file') => ZipByNameOrType(Val(file'))
      /\ \A i \in 1..Len(pending') : ZipByNameOrType(pending'[i])
      /\ \A f \in CandidateFiles :
           ~ZipByNameOrType(f) =>
             /\ (running = "App.tsx" /\ handleFileChange(Some(f))) =>
                  /\ file' = None
                  /\ Len(notifications') = Len(notifications) + 1
                  /\ notifications'[Len(notifications')].type = "error"
                  /\ notifications'[Len(notifications')].message = InvalidFormatMessage
             /\ (running = "index.tsx" /\ Index_handleFileChange(Some(f))) =>
                  /\ file' = None
                  /\ status' = "error"
                  /\ errorMessage' = InvalidFormatMessage
    ]_vars

\* C11 witness: in App.tsx a file was rejected while an upload of a zip was
\* running: the error notification is shown and no file is selected.
C11_Witness ==
  /\ running = "App.tsx"
  /\ file = None
  /\ Len(pending) = 1
  /\ \E i \in 1..Len(notifications) :
       notifications[i].message = InvalidFormatMessage /\ notifications[i].type = "error"

\* the records of `before` whose id is not X, at their places
Others(before, X) == {i \in 1..Len(before) : before[i].id # X}

\* `after` is `before` without the records of id X: every other record is
\* there, as it was, and in the same relative order
RemovesExactly(before, after, X) ==
  /\ Len(after) = Cardinality(Others(before, X))
  /\ \A i \in Others(before, X) :
       after[Cardinality({j \in Others(before, X) : j <= i})] = before[i]

\* C12: a confirmed delete of the record with id X removes exactly the records
\* with that id and keeps the others, unchanged and in order: in the page
\* (handleConfirmDelete), where the pending candidate is also cleared and a
\* success notification emitted, and in the mock store (deleteFile), whose
\* collection is what a list (getFiles) settling later returns.
C12_ConfirmedDeleteRemovesExactlyThatId ==
  [][ /\ (running = "App.tsx" /\ handleConfirmDelete) =>
           /\ RemovesExactly(uploadedFiles, uploadedFiles', Val(fileToDelete).id)
           /\ fileToDelete' = None
           /\ Len(notifications') = Len(notifications) + 1
           /\ notifications'[Len(notifications')].type = "success"
      /\ (running = "api.ts" /\ Len(apiResults') > Len(apiResults)) =>
           LET settled == apiResults'[Len(apiResults')]
           IN  /\ settled.op = "deleteFile" =>
                    RemovesExactly(files, files', Val(settled.arg))
               /\ settled.op = "getFiles" =>
                    settled.value = files /\ files' = files
    ]_vars

\* C12 witness: in the page, the second of the initial records was deleted on
\* confirmation: the first and the third are left, in that order, no candidate
\* is pending and the success notification is shown.
C12_Witness ==
  /\ running = "App.tsx"
  /\ fileToDelete = None
  /\ \E n \in 1..(Len(uploadedFiles) - 1) :
       /\ uploadedFiles[n] = initialFiles[1]
       /\ uploadedFiles[n + 1] = initialFiles[3]
  /\ \E i \in 1..Len(notifications) :
       notifications[i].message = "Arquivo excluido com sucesso."

\* the records of `before` that `after` no longer holds
Lost(before, after) ==
  {before[i] : i \in 1..Len(before)} \ {after[i] : i \in 1..Len(after)}

\* C13: two-step delete: a delete request sets the pending candidate and a
\* cancel clears it, and neither changes the collection, the notifications, the
\* search text or the sort mode; a step that removes a record from the
\* collection removes the pending candidate, which was requested before, and is
\* the confirm: it clears the candidate and emits its notification.
C13_RequestAndCancelChangeOnlyTheCandidate ==
  [][ /\ handleDeleteRequest =>
           /\ IsSome(fileToDelete')
           /\ UNCHANGED <<uploadedFiles, notifications, searchTerm, sortOption>>
      /\ handleCloseModal =>
           /\ fileToDelete' = None
           /\ UNCHANGED <<uploadedFiles, notifications, searchTerm, sortOption>>
      /\ Lost(uploadedFiles, uploadedFiles') # {} =>
           /\ IsSome(fileToDelete)
           /\ Lost(uploadedFiles, uploadedFiles') = {Val(fileToDelete)}
           /\ fileToDelete' = None
           /\ Len(notifications') = Len(notifications) + 1
           /\ notifications'[Len(notifications')].message = "Arquivo excluido com sucesso."
    ]_vars

\* C13 witness: a delete was requested for a record while a notification was
\* shown and the list was searched and sorted by name: the candidate is set and
\* the collection is still the initial one.
C13_Witness ==
  /\ IsSome(fileToDelete)
  /\ Val(fileToDelete) = initialFiles[3]
  /\ uploadedFiles = initialFiles
  /\ notifications # <<>>
  /\ searchTerm # <<>>
  /\ sortOption = "name-asc"

\* C14 (as claimed): notification ids are unique: no two notifications in the
\* list have the same id.
C14_Claimed_NotificationIdsUnique ==
  \A i, j \in 1..Len(notifications) :
    i # j => notifications[i].id # notifications[j].id

\* C15 (as claimed): a notification is gone from the list once more than the
\* delay has passed since it was emitted (its id is the time of its emission).
C15_Claimed_GoneAfterTheDelay ==
  \A i \in 1..Len(notifications) :
    now <= notifications[i].id + NotificationDelay

\* 1 <= b / k^i < k, for a byte count b >= 1 written in base k
QuotientInRange(b, i) == Len(b) = i + 1

\* b >= k^MaxUnit, MaxUnit the index of the largest unit (TB)
BeyondTheUnits(b) == Len(b) > Len(sizes)

\* C16 (as claimed): formatBytes(0) is '0 Bytes'; for a byte count b >= 1 the
\* unit is the one at the index i with 1 <= b / 1024^i < 1024, or TB when b is
\* 1024^5 or more; the unit is always one of the five names.
C16_Claimed_UnitSelection ==
  IsSome(formatted) =>
    LET unit == Val(formatted).unit
    IN  /\ unit \in {sizes[n] : n \in 1..Len(sizes)}
        /\ bytes = <<>> => unit = "Bytes" /\ Val(formatted).whole = 0
        /\ (bytes # <<>> /\ BeyondTheUnits(bytes)) => unit = "TB"
        /\ (bytes # <<>> /\ ~BeyondTheUnits(bytes)) =>
             \E i \in 0..(Len(sizes) - 1) :
               QuotientInRange(bytes, i) /\ unit = sizes[i + 1]

Reverse(s) == [i \in 1..Len(s) |-> s[Len(s) + 1 - i]]

DistinctTimestamps(array) ==
  \A i, j \in 1..Len(array) : i # j => array[i].uploadedAt # array[j].uploadedAt

\* C17: visible-list sorting, for the collection of every reachable state and
\* every search text: when all timestamps are distinct the visible list under
\* 'date-desc' is the reverse of the one under 'date-asc'; sorting the
\* 'name-asc' visible list by 'name-asc' again gives the same order; computing
\* the visible list, under any sort mode, leaves the canonical collection as it
\* is; and the list shown is the one computed for the current search text and
\* sort mode.
C17_VisibleListSorting ==
  /\ \A term \in SearchTerms :
       /\ DistinctTimestamps(uploadedFiles) =>
            filteredAndSortedFiles(uploadedFiles, term, "date-desc").visible
              = Reverse(filteredAndSortedFiles(uploadedFiles, term, "date-asc").visible)
       /\ LET sorted == filteredAndSortedFiles(uploadedFiles, term, "name-asc").visible
          IN  filteredAndSortedFiles(sorted, <<>>, "name-asc").visible = sorted
       /\ \A option \in SortOptions :
            filteredAndSortedFiles(uploadedFiles, term, option).source = uploadedFiles
  /\ visibleFiles = filteredAndSortedFiles(uploadedFiles, searchTerm, sortOption).visible

\* C17 witness: after an upload and a delete, with distinct timestamps left, the
\* list is searched and sorted by date ascending: it shows at least two
\* records, fewer than the collection holds and in another order.
C17_Witness ==
  /\ DistinctTimestamps(uploadedFiles)
  /\ Len(uploadedFiles) = Len(initialFiles)
  /\ uploadedFiles # initialFiles
  /\ searchTerm # <<>>
  /\ sortOption = "date-asc"
  /\ Len(visibleFiles) >= 2
  /\ Len(visibleFiles) < Len(uploadedFiles)
  /\ visibleFiles # filter(uploadedFiles, searchTerm)

\* C18 (as claimed): Create leaves no orphan when compensation is possible:
\* once a Create has returned anything but 201 and none of its blob deletes has
\* failed, the blob it has written, if any, is not in the blob store, also when
\* the head after the write has failed.
C18_Claimed_NoOrphanAfterFailedCreate ==
  \A c \in Clients :
    (Done(c, "POST") /\ resp[c].status # 201 /\ ~Failed(c, "del")) =>
      \A i \in 1..Len(calls[c]) :
        (calls[c][i].op = "put" /\ calls[c][i].ok) =>
          calls[c][i].key \notin Urls(blobs)

\* C19 (as claimed): Delete keeps rows and blobs paired on success: once a
\* Delete has returned 200, no row of the table has the url that it deleted
\* from the blob store, whatever id and url the client sent.
C19_Claimed_DeleteKeepsPairs ==
  \A c \in Clients :
    (Done(c, "DELETE") /\ resp[c].status = 200) =>
      \A i \in 1..Len(calls[c]) :
        (calls[c][i].op = "del" /\ calls[c][i].ok) =>
          calls[c][i].key \notin Urls(db)

\* C20 (as claimed): the status-based widget of index.tsx: while an upload has
\* started and not completed, the status is 'uploading', the upload button is
\* disabled and no second upload is running.
C20_Claimed_StatusStaysUploading ==
  pending # <<>> =>
    /\ status = "uploading"
    /\ Index_UploadButtonDisabled
    /\ Len(pending) = 1

Ids(s) == {s[i].id : i \in 1..Len(s)}

\* the results of the deleteFile calls for id X, in the order they settled
DeleteResults(X) ==
  SelectSeq(apiResults, LAMBDA r : r.op = "deleteFile" /\ Val(r.arg) = X)

\* the call that a step of the mock store settles
Settled == apiResults'[Len(apiResults')]

\* what a settling step of the mock store does to the stored collection
SettlesAtomically ==
  IF Len(apiResults') = Len(apiResults) + 1
  THEN /\ Settled.op = "deleteFile" =>
            /\ Settled.ok <=> Val(Settled.arg) \in Ids(files)
            /\ RemovesExactly(files, files', Val(Settled.arg))
            /\ Val(Settled.arg) \notin Ids(files')
            /\ ~Settled.ok => files' = files
       /\ Settled.op = "uploadFile" =>
            IF Settled.ok
            THEN /\ files' = Settled.value \o files
                 /\ Settled.value[1].id \notin Ids(files)
            ELSE files' = files
       /\ Settled.op = "getFiles" => files' = files
  ELSE files' = files

\* no effect of a settled call is lost: a removed id is not stored, and a record
\* that was stored at the start or by an upload is stored unless a deleteFile
\* for its id has succeeded
NothingLost ==
  /\ \A i \in 1..Len(apiResults) :
       LET r == apiResults[i]
       IN  /\ (r.op = "deleteFile" /\ r.ok) => Val(r.arg) \notin Ids(files)
           /\ (r.op = "uploadFile" /\ r.ok) =>
                \/ \E n \in 1..Len(files) : files[n] = r.value[1]
                \/ \E d \in 1..Len(DeleteResults(r.value[1].id)) :
                     DeleteResults(r.value[1].id)[d].ok
  /\ \A i \in 1..Len(MockInitialFiles) :
       \/ \E n \in 1..Len(files) : files[n] = MockInitialFiles[i]
       \/ \E d \in 1..Len(DeleteResults(MockInitialFiles[i].id)) :
            DeleteResults(MockInitialFiles[i].id)[d].ok

\* C21: the mock store under interleaving: of the deleteFile calls for one id,
\* at most one resolves with success, and for an id that the store contains it
\* is the first to settle, every other one rejecting with the not-found error
\* (so of two such calls in flight at once exactly one succeeds); a deleteFile
\* that rejects leaves the stored collection unchanged; each settling call
\* works on the collection as the calls settled before it have left it, so an
\* uploadFile or a deleteFile for another id interleaved with it is not lost.
C21_InterleavedStoreCalls ==
  /\ [][SettlesAtomically]_vars
  /\ [](/\ NothingLost
        /\ \A X \in 1..nextUuid :
             /\ \A i, j \in 1..Len(DeleteResults(X)) :
                  (DeleteResults(X)[i].ok /\ DeleteResults(X)[j].ok) => i = j
             /\ (X \in Ids(MockInitialFiles) /\ DeleteResults(X) # <<>>) =>
                  DeleteResults(X)[1].ok)

\* two deleteFile calls for the same stored id have settled, the first with
\* success and the second with the not-found error, and only that record is
\* gone from the store
C21_Witness ==
  /\ running = "api.ts"
  /\ \E X \in Ids(MockInitialFiles) :
       /\ Len(DeleteResults(X)) = 2
       /\ DeleteResults(X)[1].ok
       /\ ~DeleteResults(X)[2].ok
       /\ X \notin Ids(files)
       /\ Len(files) = Len(MockInitialFiles) - 1

====
